---- MODULE Spec2Model ----
(***************************************************************************)
(* State-machine model of the snake simulation in src/src/main.rs.         *)
(*                                                                         *)
(* One frame of the Update stage is modelled as: BeginFrame (the run       *)
(* criteria decide which systems run this frame and the keyboard is        *)
(* sampled), then one step per system in any order the labels of main()    *)
(* allow, then apply_buffers (the deferred Commands of every system are    *)
(* applied at the end of the stage).  Each fixed-timestep set runs at most *)
(* once per frame.                                                         *)
(***************************************************************************)
EXTENDS Integers, Sequences, FiniteSets, TLC

WIDTH == 30
HEIGHT == 30

\* Bounds of the model.
MaxTicks == 5
MaxFood == 2
MaxSnake == 4

\* The pairs of values random::<f32>() takes in the model, as numerators
\* over RandomSteps (two per grid cell, so that the cast truncates): they
\* land on the cells (2,3), (3,3) and (3,4) around the starting position.
RandomSteps == 2 * WIDTH
RandomDraws == {<<4, 6>>, <<7, 6>>, <<7, 9>>}

None == "None"
\* Option<Position>: the empty sequence is None, <<p>> is Some(p).
NoPosition == <<>>
Some(p) == <<p>>
Unwrap(o) == o[1]
Directions == {"Left", "Right", "Up", "Down"}
KeyCodes == {"A", "D", "W", "S"}
KeySets == SUBSET KeyCodes
\* No key or one key: these resolve to every candidate there is.
SingleKeys == {k \in KeySets : Cardinality(k) <= 1}

\* The systems of the Update stage (apply_buffers is the end of the stage).
MovementSet == {"snek_movement", "snek_eating", "snek_growth"}
FoodSet == {"food_spawner"}
EveryFrame == {"snek_movement_input", "game_over", "apply_buffers"}

VARIABLES
    positions,            \* entity -> Position, for every live entity
    tags,                 \* entity -> "head" | "segment" | "food"
    heads,                \* entity -> SnekHead, for the live head entities
    segments,             \* SnekSegments.0
    last_tail_position,   \* LastTailPosition.0
    growth_events,        \* GrowthEvents not yet seen by snek_growth
    game_over_events,     \* GameOverEvents not yet seen by game_over
    commands,             \* deferred Commands of this frame
    keyboard_input,       \* the keys snek_movement_input read, until the next system runs
    candidate,            \* the direction snek_movement_input resolved, until the next system runs
    pending,              \* systems that still have to run in this frame
    ticks,                \* movement ticks so far
    panicked,             \* an unwrap() met None
    pre_segments,         \* SnekSegments.0 when the frame began
    sent_game_over,       \* GameOverEvents sent in this frame
    sent_growth,          \* GrowthEvents sent in this frame
    resets,               \* calls of spawn_snek in this frame
    committed,            \* direction committed by the last movement tick
    food_pos,             \* food_spawner's pos while its loop is followed draw by draw
    redrawn               \* the loop of food_spawner has rejected a draw in this frame

vars == <<positions, tags, heads, segments, last_tail_position,
          growth_events, game_over_events, commands, keyboard_input,
          candidate, pending, ticks, panicked, pre_segments,
          sent_game_over, sent_growth, resets, committed, food_pos,
          redrawn>>

Position(px, py) == [x |-> px, y |-> py]

SeqSet(s) == {s[i] : i \in 1..Len(s)}

Min(a, b) == IF a < b THEN a ELSE b

\* (n as u32) >= bound, for an i32 n and a bound below 2^31: a negative n
\* wraps to 2^32 + n, which is above every such bound.
AsU32AtLeast(n, bound) == IF n < 0 THEN TRUE ELSE n >= bound

opposite(d) ==
    CASE d = "Left" -> "Right"
      [] d = "Right" -> "Left"
      [] d = "Up" -> "Down"
      [] d = "Down" -> "Up"

\* The entities a query With<SnekSegment> / With<Food> / With<SnekHead> sees.
WithSnekSegment == {e \in DOMAIN tags : tags[e] \in {"head", "segment"}}
WithFood == {e \in DOMAIN tags : tags[e] = "food"}
WithSnekHead == DOMAIN heads

\* Commands::spawn reserves the identifier at once; the components arrive
\* when the buffer is applied.
Reserved == {commands[i].ent : i \in {j \in 1..Len(commands) : commands[j].op = "spawn"}}
InUse == DOMAIN tags \cup Reserved
NewEntity(used) == CHOOSE e \in 1..(Cardinality(used) + 1) : e \notin used
\* The identifier of a food spawned at p: which unused identifier an entity
\* gets is of no effect, and the foods take theirs by cell, below zero, so
\* that the same foods have the same identifiers whatever their order.
FoodEntity(p, k) == 0 - (p.x * HEIGHT + p.y + 1 + (k - 1) * WIDTH * HEIGHT)
NewFood(used, p) ==
    FoodEntity(p, CHOOSE k \in 1..(Cardinality(used) + 1) :
                     /\ FoodEntity(p, k) \notin used
                     /\ \A j \in 1..(k - 1) : FoodEntity(p, j) \in used)

SpawnCmd(e, t, p) == [op |-> "spawn", ent |-> e, tag |-> t, pos |-> p]
DespawnCmd(e) == [op |-> "despawn", ent |-> e, tag |-> None, pos |-> None]

SnekHeadInit == [direction |-> "Up", next_direction |-> "Up"]

\* The world after one command.
ApplyCommand(w, c) ==
    IF c.op = "spawn"
    THEN [positions |-> [e \in DOMAIN w.positions \cup {c.ent} |->
                            IF e = c.ent THEN c.pos ELSE w.positions[e]],
          tags |-> [e \in DOMAIN w.tags \cup {c.ent} |->
                            IF e = c.ent THEN c.tag ELSE w.tags[e]],
          heads |-> IF c.tag = "head"
                    THEN [e \in DOMAIN w.heads \cup {c.ent} |->
                            IF e = c.ent THEN SnekHeadInit ELSE w.heads[e]]
                    ELSE w.heads]
    ELSE [positions |-> [e \in DOMAIN w.positions \ {c.ent} |-> w.positions[e]],
          tags |-> [e \in DOMAIN w.tags \ {c.ent} |-> w.tags[e]],
          heads |-> [e \in DOMAIN w.heads \ {c.ent} |-> w.heads[e]]]

RECURSIVE ApplyCommands(_, _)
ApplyCommands(w, cs) ==
    IF cs = <<>> THEN w
    ELSE ApplyCommands(ApplyCommand(w, Head(cs)), Tail(cs))

StartHead == Position(3, 3)
StartSegment == Position(3, 2)

Init ==
    /\ positions = (1 :> StartHead) @@ (2 :> StartSegment)
    /\ tags = (1 :> "head") @@ (2 :> "segment")
    /\ heads = (1 :> SnekHeadInit)
    /\ segments = <<1, 2>>
    /\ last_tail_position = NoPosition
    /\ growth_events = 0
    /\ game_over_events = 0
    /\ commands = <<>>
    /\ keyboard_input = {}
    /\ candidate = None
    /\ pending = {}
    /\ ticks = 0
    /\ panicked = FALSE
    /\ pre_segments = <<>>
    /\ sent_game_over = 0
    /\ sent_growth = 0
    /\ resets = 0
    /\ committed = None
    /\ food_pos = NoPosition
    /\ redrawn = FALSE

\* A system may run when it is pending and nothing that has to run before
\* it is.  main() orders Input before Movement before Eating before Growth
\* and game_over after Movement.  Two systems that main() leaves unordered
\* and that touch no common data commute, and the model runs them in one
\* order (the input first, food_spawner before Eating and game_over).  The
\* order stays open where unordered systems share data: food_spawner reads
\* the Positions snek_movement writes, and game_over replaces the
\* SnekSegments snek_growth pushes to.
Before(s) ==
    CASE s = "food_spawner" -> {"snek_movement_input"}
      [] s = "snek_movement" -> {"snek_movement_input"}
      [] s = "snek_eating" -> {"snek_movement", "food_spawner"}
      [] s = "snek_growth" -> {"snek_eating"}
      [] s = "game_over" -> {"snek_movement_input", "snek_movement", "food_spawner"}
      [] s = "apply_buffers" -> MovementSet \cup FoodSet \cup {"snek_movement_input", "game_over"}
      [] OTHER -> {}

CanRun(s) == /\ ~panicked
             /\ s \in pending
             /\ Before(s) \cap pending = {}

Ran(s) == s \in pending /\ s \notin pending'

\* The run criteria of a frame: move and food say whether the two
\* FixedTimestep sets run.
BeginFrame(move, food) ==
    /\ ~panicked
    /\ pending = {}
    /\ move => ticks < MaxTicks
    /\ food => Cardinality(WithFood) < MaxFood
    /\ pending' = EveryFrame \cup (IF move THEN MovementSet ELSE {})
                             \cup (IF food THEN FoodSet ELSE {})
    /\ ticks' = IF move THEN ticks + 1 ELSE ticks
    /\ pre_segments' = segments
    /\ UNCHANGED <<sent_game_over, sent_growth, resets>>
    /\ UNCHANGED <<positions, tags, heads, segments, last_tail_position,
                   growth_events, game_over_events, commands, panicked,
                   keyboard_input, candidate, committed, food_pos,
                   redrawn>>

\* snek_movement_input: the key chain, first pressed key wins.
\* Mutant of Candidate: with no key pressed the candidate is Up.
Candidate_DefaultUp(keys, head) ==
    IF "A" \in keys THEN "Left"
    ELSE IF "D" \in keys THEN "Right"
    ELSE IF "W" \in keys THEN "Up"
    ELSE IF "S" \in keys THEN "Down"
    ELSE "Up"

\* Mutant of Candidate: Up is tested before Left and Right.
Candidate_UpFirst(keys, head) ==
    IF "W" \in keys THEN "Up"
    ELSE IF "A" \in keys THEN "Left"
    ELSE IF "D" \in keys THEN "Right"
    ELSE IF "S" \in keys THEN "Down"
    ELSE head.direction

Candidate(keys, head) ==
    IF "A" \in keys THEN "Left"
    ELSE IF "D" \in keys THEN "Right"
    ELSE IF "W" \in keys THEN "Up"
    ELSE IF "S" \in keys THEN "Down"
    ELSE head.direction

\* Mutants of Accepted: a reversal is let through / only a reversal is rejected.
Accepted_NoReversalCheck(direction, head) == direction /= head.direction
Accepted_OnlyReversalRejected(direction, head) == direction /= opposite(head.direction)

\* snek_movement_input: the condition under which next_direction is set.
Accepted(direction, head) ==
    direction /= opposite(head.direction) /\ direction /= head.direction

TheHead == CHOOSE e \in WithSnekHead : TRUE

\* keys is the state of Input<KeyCode> the system reads.
snek_movement_input(keys) ==
    /\ CanRun("snek_movement_input")
    /\ pending' = pending \ {"snek_movement_input"}
    /\ keyboard_input' = keys
    /\ UNCHANGED <<food_pos, redrawn>>
    /\ IF WithSnekHead /= {}
       THEN LET head == heads[TheHead]
                direction == Candidate(keys, head)
            IN  /\ candidate' = direction
                /\ heads' = IF Accepted(direction, head)
                             THEN [heads EXCEPT ![TheHead].next_direction = direction]
                             ELSE heads
       ELSE UNCHANGED <<heads, candidate>>
    /\ UNCHANGED <<positions, tags, segments, last_tail_position,
                   growth_events, game_over_events, commands,
                   ticks, panicked, pre_segments,
                   sent_game_over, sent_growth, resets, committed>>

\* Mutant of Moved: Up and Down exchanged.
Moved_Flipped(p, d) ==
    CASE d = "Left" -> Position(p.x - 1, p.y)
      [] d = "Right" -> Position(p.x + 1, p.y)
      [] d = "Up" -> Position(p.x, p.y - 1)
      [] d = "Down" -> Position(p.x, p.y + 1)

\* snek_movement: the match on head.direction.
Moved(p, d) ==
    CASE d = "Left" -> Position(p.x - 1, p.y)
      [] d = "Right" -> Position(p.x + 1, p.y)
      [] d = "Up" -> Position(p.x, p.y + 1)
      [] d = "Down" -> Position(p.x, p.y - 1)

\* snek_movement: the wall test.
OutOfBounds(p) ==
    \/ p.x < 0
    \/ AsU32AtLeast(p.x, WIDTH)
    \/ p.y < 0
    \/ AsU32AtLeast(p.y, HEIGHT)

\* Mutant of Contains: the tail's cell is not compared.
Contains_NoTail(sp, p) == \E i \in 1..(Len(sp) - 1) : sp[i] = p

\* snek_movement: segment_positions.contains(&head_pos).
Contains(sp, p) == \E i \in 1..Len(sp) : sp[i] = p

\* Mutant of Shifted: the zip is taken without skip(1), so that every body
\* segment is given its own pre-move position.
Shifted_NoSkip(pos, segs, sp) ==
    [e \in DOMAIN pos |->
        IF \E i \in 2..Min(Len(sp), Len(segs)) : segs[i] = e
        THEN sp[CHOOSE i \in 2..Min(Len(sp), Len(segs)) : segs[i] = e]
        ELSE pos[e]]

\* snek_movement: the zip of the snapshot with segments.0.iter().skip(1);
\* the entity at index i + 1 gets the snapshot's position i.
Shifted(pos, segs, sp) ==
    LET n == Min(Len(sp), Len(segs) - 1)
        Last(e) == CHOOSE i \in 1..n :
                      /\ segs[i + 1] = e
                      /\ \A j \in 1..n : segs[j + 1] = e => j <= i
    IN  [e \in DOMAIN pos |->
            IF \E i \in 1..n : segs[i + 1] = e THEN sp[Last(e)] ELSE pos[e]]

snek_movement ==
    /\ CanRun("snek_movement")
    /\ pending' = pending \ {"snek_movement"}
    /\ IF WithSnekHead = {}
       THEN UNCHANGED <<positions, heads, last_tail_position, game_over_events,
                        panicked, sent_game_over, committed>>
       ELSE IF \E i \in 1..Len(segments) : segments[i] \notin DOMAIN positions
       THEN /\ panicked' = TRUE
            /\ UNCHANGED <<positions, heads, last_tail_position, game_over_events, sent_game_over, committed>>
       ELSE LET head_entity == TheHead
                snapshot == [i \in 1..Len(segments) |-> positions[segments[i]]]
                direction == heads[head_entity].next_direction
                head_pos == Moved(positions[head_entity], direction)
                sent == (IF OutOfBounds(head_pos) THEN 1 ELSE 0)
                        + (IF Contains(snapshot, head_pos) THEN 1 ELSE 0)
            IN  /\ heads' = [heads EXCEPT ![head_entity].direction = direction]
                /\ committed' = direction
                /\ game_over_events' = game_over_events + sent
                /\ sent_game_over' = sent_game_over + sent
                /\ positions' = Shifted([positions EXCEPT ![head_entity] = head_pos],
                                        segments, snapshot)
                /\ IF snapshot = <<>>
                   THEN panicked' = TRUE /\ last_tail_position' = last_tail_position
                   ELSE panicked' = panicked
                        /\ last_tail_position' = Some(snapshot[Len(snapshot)])
    /\ keyboard_input' = {}
    /\ UNCHANGED <<food_pos, redrawn>>
    /\ candidate' = None
    /\ UNCHANGED <<tags, segments, growth_events, commands, ticks, pre_segments, sent_growth, resets>>

\* food_spawner: gen(), one coordinate: (random::<f32>() * WIDTH as f32) as i32
Gen(r, bound) == (r * bound) \div RandomSteps

\* Mutant of Rejected: the first draw is taken.
Rejected_Never(positions_vec, pos) == FALSE

\* Mutant of Rejected: every draw is taken to lie on a segment.
Rejected_Always(positions_vec, pos) == TRUE

\* food_spawner: the loop redraws while positions_vec.contains(&&pos).
Rejected(positions_vec, pos) == pos \in positions_vec

\* The loop as a whole: the draw it ends with.
food_spawner ==
    /\ CanRun("food_spawner")
    /\ food_pos = NoPosition
    /\ pending' = pending \ {"food_spawner"}
    /\ \E r \in RandomDraws :
          LET positions_vec == {positions[e] : e \in WithSnekSegment}
              pos == Position(Gen(r[1], WIDTH), Gen(r[2], HEIGHT))
          IN  /\ ~Rejected(positions_vec, pos)
              /\ commands' = Append(commands, SpawnCmd(NewFood(InUse, pos), "food", pos))
    /\ keyboard_input' = {}
    /\ UNCHANGED <<food_pos, redrawn>>
    /\ candidate' = None
    /\ UNCHANGED <<positions, tags, heads, segments, last_tail_position,
                   growth_events, game_over_events, ticks,
                   panicked, pre_segments, sent_game_over,
                   sent_growth, resets, committed>>

\* food_spawner draw by draw. The closure gen with the random values r.
gen(r) == Position(Gen(r[1], WIDTH), Gen(r[2], HEIGHT))

\* let positions_vec = positions.iter().collect(); let mut pos = gen();
food_gen(r) ==
    /\ CanRun("food_spawner")
    /\ food_pos = NoPosition
    /\ food_pos' = Some(gen(r))
    /\ keyboard_input' = {}
    /\ candidate' = None
    /\ UNCHANGED redrawn
    /\ UNCHANGED <<positions, tags, heads, segments, last_tail_position,
                   growth_events, game_over_events, commands, pending, ticks,
                   panicked, pre_segments, sent_game_over,
                   sent_growth, resets, committed>>

\* while positions_vec.contains(&&pos) { pos = gen(); }
food_regen(r) ==
    /\ ~panicked
    /\ food_pos /= NoPosition
    /\ Rejected({positions[e] : e \in WithSnekSegment}, Unwrap(food_pos))
    /\ food_pos' = Some(gen(r))
    /\ redrawn' = TRUE
    /\ UNCHANGED <<positions, tags, heads, segments, last_tail_position,
                   growth_events, game_over_events, commands, keyboard_input,
                   candidate, pending, ticks, panicked, pre_segments,
                   sent_game_over, sent_growth, resets, committed>>

\* The loop is left and the food is spawned at pos.
food_spawn ==
    /\ ~panicked
    /\ food_pos /= NoPosition
    /\ ~Rejected({positions[e] : e \in WithSnekSegment}, Unwrap(food_pos))
    /\ commands' = Append(commands,
                       SpawnCmd(NewFood(InUse, Unwrap(food_pos)), "food",
                                Unwrap(food_pos)))
    /\ food_pos' = NoPosition
    /\ pending' = pending \ {"food_spawner"}
    /\ UNCHANGED redrawn
    /\ UNCHANGED <<positions, tags, heads, segments, last_tail_position,
                   growth_events, game_over_events, keyboard_input,
                   candidate, ticks, panicked, pre_segments,
                   sent_game_over, sent_growth, resets, committed>>

RECURSIVE Despawns(_)
Despawns(ents) ==
    IF ents = {} THEN <<>>
    ELSE LET e == CHOOSE x \in ents : \A y \in ents : x <= y
         IN  <<DespawnCmd(e)>> \o Despawns(ents \ {e})

\* Mutant of Eaten: every food is eaten, wherever it lies.
Eaten_All == WithFood

\* snek_eating: the foods the two loops despawn.
Eaten == {f \in WithFood : \E h \in WithSnekHead : positions[f] = positions[h]}

snek_eating ==
    /\ CanRun("snek_eating")
    /\ pending' = pending \ {"snek_eating"}
    /\ commands' = commands \o Despawns(Eaten)
    /\ growth_events' = growth_events + Cardinality(Eaten)
    /\ sent_growth' = sent_growth + Cardinality(Eaten)
    /\ keyboard_input' = {}
    /\ UNCHANGED <<food_pos, redrawn>>
    /\ candidate' = None
    /\ UNCHANGED <<positions, tags, heads, segments, last_tail_position,
                   game_over_events, ticks, panicked, pre_segments, sent_game_over, resets,
                   committed>>

\* Mutant of Unread: the pass consumes only the event it looks at.
Unread_One(events) == IF events > 0 THEN events - 1 ELSE 0

\* reader.iter().next(): making the iterator marks every pending event as
\* read, so none is left for a later pass.
Unread(events) == 0

\* Mutant of Pushed: the new entity is put in front.
Pushed_Front(segs, e) == <<e>> \o segs

\* snek_growth: segments.0.push(...)
Pushed(segs, e) == Append(segs, e)

\* snek_growth; the reader marks every pending event as read.
snek_growth ==
    /\ CanRun("snek_growth")
    /\ pending' = pending \ {"snek_growth"}
    /\ growth_events' = Unread(growth_events)
    /\ IF growth_events > 0
       THEN IF last_tail_position = NoPosition
            THEN panicked' = TRUE /\ UNCHANGED <<segments, commands>>
            ELSE LET e == NewEntity(InUse)
                 IN  /\ segments' = Pushed(segments, e)
                     /\ commands' = Append(commands,
                                        SpawnCmd(e, "segment", Unwrap(last_tail_position)))
                     /\ panicked' = panicked
       ELSE UNCHANGED <<segments, commands, panicked>>
    /\ keyboard_input' = {}
    /\ UNCHANGED <<food_pos, redrawn>>
    /\ candidate' = None
    /\ UNCHANGED <<positions, tags, heads, last_tail_position, game_over_events,
                   ticks, pre_segments,
                   sent_game_over, sent_growth, resets, committed>>

\* spawn_snek: the two entities of segments.0 and their spawn commands.
spawn_snek(used) ==
    LET h == NewEntity(used)
        s == NewEntity(used \cup {h})
    IN  [segments |-> <<h, s>>,
         commands |-> <<SpawnCmd(h, "head", StartHead),
                        SpawnCmd(s, "segment", StartSegment)>>]

\* game_over: the entities the chained queries despawn.
Doomed == WithFood \cup WithSnekSegment

\* game_over; the reader marks every pending event as read.
game_over ==
    /\ CanRun("game_over")
    /\ pending' = pending \ {"game_over"}
    /\ game_over_events' = Unread(game_over_events)
    /\ IF game_over_events > 0
       THEN LET snek == spawn_snek(InUse)
            IN  /\ commands' = commands \o Despawns(Doomed) \o snek.commands
                /\ segments' = snek.segments
                /\ resets' = resets + 1
       ELSE UNCHANGED <<commands, segments, resets>>
    /\ keyboard_input' = {}
    /\ UNCHANGED <<food_pos, redrawn>>
    /\ candidate' = None
    /\ UNCHANGED <<positions, tags, heads, last_tail_position, growth_events,
                   ticks, panicked,
                   pre_segments, sent_game_over, sent_growth, committed>>

\* End of the stage: every system's command buffer is applied.
apply_buffers ==
    /\ CanRun("apply_buffers")
    /\ pending' = pending \ {"apply_buffers"}
    /\ LET w == ApplyCommands([positions |-> positions, tags |-> tags,
                               heads |-> heads], commands)
       IN  /\ positions' = w.positions
           /\ tags' = w.tags
           /\ heads' = w.heads
    /\ commands' = <<>>
    /\ keyboard_input' = {}
    /\ redrawn' = FALSE
    /\ UNCHANGED food_pos
    /\ candidate' = None
    /\ pre_segments' = <<>>
    /\ sent_game_over' = 0
    /\ sent_growth' = 0
    /\ resets' = 0
    /\ UNCHANGED <<segments, last_tail_position, growth_events,
                   game_over_events, ticks, panicked, committed>>

Next ==
    \/ \E move \in BOOLEAN, food \in BOOLEAN : BeginFrame(move, food)
    \/ \E keys \in SingleKeys : snek_movement_input(keys)
    \/ snek_movement
    \/ snek_eating
    \/ snek_growth
    \/ game_over
    \/ food_spawner
    \/ apply_buffers

Spec == Init /\ [][Next]_vars

\* The frames before the first food-spawn tick (the food cadence is ten
\* movement intervals), with any set of keys pressed in an input pass.
NextInput ==
    \/ \E move \in BOOLEAN : BeginFrame(move, FALSE)
    \/ \E keys \in KeySets : snek_movement_input(keys)
    \/ snek_movement
    \/ snek_eating
    \/ snek_growth
    \/ game_over
    \/ apply_buffers

SpecInput == Init /\ [][NextInput]_vars

\* The snakes food_spawner is followed on: the starting snake, and every
\* snake of three to MaxSnake segments lying in the cells around the
\* starting position as after a tick in which it grew.
Window == {Position(x, y) : x \in 2..3, y \in 2..4}
SnakesOfLength(n) ==
    {s \in [1..n -> Window] :
        /\ \A i, j \in 1..n : i /= j => s[i] /= s[j]
        /\ \A i \in 1..(n - 1) : \E d \in Directions : Moved(s[i + 1], d) = s[i]}
Snakes == UNION {SnakesOfLength(n) : n \in 3..MaxSnake}

InitFood ==
    \/ Init
    \/ \E s \in Snakes :
          /\ positions = s
          /\ tags = [i \in 1..Len(s) |-> IF i = 1 THEN "head" ELSE "segment"]
          /\ heads = (1 :> LET d == CHOOSE d \in Directions : Moved(s[2], d) = s[1]
                            IN  [direction |-> d, next_direction |-> d])
          /\ segments = [i \in 1..Len(s) |-> i]
          /\ last_tail_position = Some(s[Len(s)])
          /\ growth_events = 0
          /\ game_over_events = 0
          /\ commands = <<>>
          /\ keyboard_input = {}
          /\ candidate = None
          /\ pending = {}
          /\ ticks = MaxTicks
          /\ panicked = FALSE
          /\ pre_segments = <<>>
          /\ sent_game_over = 0
          /\ sent_growth = 0
          /\ resets = 0
          /\ committed = heads[1].direction
          /\ food_pos = NoPosition
          /\ redrawn = FALSE

\* Frames in which only the food-spawn tick fires, the loop of food_spawner
\* taken one draw at a time.
NextFood ==
    \/ BeginFrame(FALSE, TRUE)
    \/ snek_movement_input({})
    \/ \E r \in RandomDraws : food_gen(r)
    \/ \E r \in RandomDraws : food_regen(r)
    \/ food_spawn
    \/ game_over
    \/ apply_buffers

\* Every draw stays possible for as long as the loop runs, and a system
\* that can run does run.
SpecFood ==
    /\ InitFood
    /\ [][NextFood]_vars
    /\ \A r \in RandomDraws : WF_vars(food_regen(r))
    /\ WF_vars(\E r \in RandomDraws : food_gen(r))
    /\ WF_vars(food_spawn)

TypeOK ==
    /\ DOMAIN positions = DOMAIN tags
    /\ ticks \in 0..MaxTicks
    /\ ~panicked

(***************************************************************************)
(* Properties.                                                             *)
(***************************************************************************)

\* The spec's is_in_bounds.
InGrid(p) == 0 <= p.x /\ p.x < WIDTH /\ 0 <= p.y /\ p.y < HEIGHT

\* The positions of the snake sequence, head first.
SnakePositions == [i \in 1..Len(segments) |-> positions[segments[i]]]

\* snek_movement has run in this frame and snek_eating has not yet.
JustMoved == "snek_movement" \notin pending /\ "snek_eating" \in pending

\* The frame is complete but for the command buffers.
FrameEnd == pending = {"apply_buffers"}

\* C1: a movement tick on pre-move positions p[1..n] leaves body segment i
\* at p[i-1] and sets LastTailPosition to p[n]; from the start state with
\* Up buffered the head goes to (3,4) and the segment to (3,3).
C1_Cascade ==
    [][(Ran("snek_movement") /\ ~panicked') =>
         LET n == Len(segments)
             p == SnakePositions
         IN  /\ \A i \in 2..n : positions'[segments[i]] = p[i - 1]
             /\ last_tail_position' = Some(p[n])
             /\ (p = <<StartHead, StartSegment>>
                   /\ heads[segments[1]].next_direction = "Up")
                => /\ positions'[segments[1]] = Position(3, 4)
                   /\ positions'[segments[2]] = Position(3, 3)]_vars

\* C1 witness: a snake of three or more segments has just moved.
C1_Witness ==
    /\ JustMoved
    /\ Len(segments) >= 3
    /\ last_tail_position /= NoPosition

\* C2: a movement tick raises GameOver exactly when the new head position
\* is outside the grid or is a position of the pre-move snapshot (the
\* tail's cell included), and a frame resets once if GameOver was raised
\* and not at all otherwise.
C2_GameOverIff ==
    [][/\ (Ran("snek_movement") /\ ~panicked') =>
            LET h == positions'[segments[1]]
            IN  (sent_game_over' > 0) <=>
                    (~InGrid(h) \/ h \in SeqSet(SnakePositions))
       /\ Ran("apply_buffers") =>
            resets = (IF sent_game_over > 0 THEN 1 ELSE 0)]_vars

\* C2 witness: the head has moved onto the cell the tail had before the
\* move, GameOver was raised and the frame has reset once.
C2_Witness ==
    /\ FrameEnd
    /\ sent_game_over > 0
    /\ resets = 1
    /\ \E h \in WithSnekHead :
          InGrid(positions[h]) /\ Some(positions[h]) = last_tail_position

\* C9: a movement tick commits the buffered next-direction and changes the
\* head by one cell along it: Up y+1, Down y-1, Left x-1, Right x+1.
C9_HeadStep ==
    [][(Ran("snek_movement") /\ ~panicked') =>
         LET h == segments[1]
             d == heads[h].next_direction
             old == positions[h]
             new == positions'[h]
         IN  /\ heads'[h].direction = d
             /\ d = "Up" => new = Position(old.x, old.y + 1)
             /\ d = "Down" => new = Position(old.x, old.y - 1)
             /\ d = "Left" => new = Position(old.x - 1, old.y)
             /\ d = "Right" => new = Position(old.x + 1, old.y)]_vars

\* C9 witness: a tick has just committed a buffered Down.
C9_Witness ==
    /\ JustMoved
    /\ committed = "Down"
    /\ \E h \in WithSnekHead : heads[h].direction = "Down"

\* The starting configuration: no food, the snake sequence is a head at
\* (3,3) followed by one segment at (3,2), no other segment entity is
\* alive, and direction and next-direction are Up.
StartConfiguration ==
    /\ WithFood = {}
    /\ Len(segments) = 2
    /\ WithSnekSegment = {segments[1], segments[2]}
    /\ WithSnekHead = {segments[1]}
    /\ tags[segments[1]] = "head" /\ positions[segments[1]] = StartHead
    /\ tags[segments[2]] = "segment" /\ positions[segments[2]] = StartSegment
    /\ heads[segments[1]] = SnekHeadInit

\* C3: a frame whose movement tick raised GameOver ends, once the handler
\* has run and the buffers are applied, in the starting configuration.
C3_ResetToStart ==
    [][(Ran("apply_buffers") /\ sent_game_over > 0) =>
          (game_over_events' = 0 /\ StartConfiguration')]_vars

\* C4: an input pass whose candidate is opposite(current direction) leaves
\* next-direction unchanged; next-direction is never opposite(current
\* direction); and the direction a movement tick commits is never the
\* opposite of the direction the previous tick committed.
C4_ReversalOriginal ==
    [][/\ (Ran("snek_movement_input") /\ candidate' /= None) =>
            \A h \in WithSnekHead :
                candidate' = opposite(heads[h].direction) => heads' = heads
       /\ \A h \in DOMAIN heads' :
            heads'[h].next_direction /= opposite(heads'[h].direction)
       /\ (Ran("snek_movement") /\ committed /= None) =>
            committed' /= opposite(committed)]_vars

\* C4 (amended): as above, but the committed direction is never the
\* opposite of the head's direction before the tick, which is the
\* direction the previous tick committed unless a reset replaced the head
\* (the new head starts at Up).
C4_Reversal ==
    [][/\ (Ran("snek_movement_input") /\ candidate' /= None) =>
            \A h \in WithSnekHead :
                candidate' = opposite(heads[h].direction) => heads' = heads
       /\ \A h \in DOMAIN heads' :
            heads'[h].next_direction /= opposite(heads'[h].direction)
       /\ Ran("snek_movement") =>
            \A h \in WithSnekHead :
                committed' /= opposite(heads[h].direction)]_vars

\* C4 witness: an input pass has resolved the opposite of the direction of
\* a snake that has already moved and turned.
C4_Witness ==
    /\ "snek_movement_input" \notin pending
    /\ committed = "Left"
    /\ \E h \in WithSnekHead :
          /\ heads[h].direction = "Left"
          /\ candidate = "Right"
          /\ heads[h].next_direction /= "Right"

\* C5: when the moved head is on a food the Eating step raises Growth, and
\* if the tick raised no GameOver the frame ends with the snake sequence
\* one longer, the old sequence its prefix and the new last entity a
\* segment at LastTailPosition; the Growth step of a tick that ate nothing
\* appends nothing.
C5_GrowthRoundTrip ==
    [][/\ Ran("snek_eating") =>
            ((sent_growth' > 0) <=>
                \E f \in WithFood : positions[f] = positions[pre_segments[1]])
       /\ (Ran("snek_growth") /\ sent_growth = 0) =>
            UNCHANGED <<segments, commands>>
       /\ (Ran("apply_buffers") /\ sent_growth = 0 /\ sent_game_over = 0) =>
            segments' = pre_segments
       /\ (Ran("apply_buffers") /\ sent_growth > 0 /\ sent_game_over = 0) =>
            LET n == Len(pre_segments)
            IN  /\ Len(segments') = n + 1
                /\ SubSeq(segments', 1, n) = pre_segments
                /\ segments'[n + 1] \notin DOMAIN tags
                /\ tags'[segments'[n + 1]] = "segment"
                /\ Some(positions'[segments'[n + 1]]) = last_tail_position']_vars

\* C5 witness: a tick without GameOver has eaten a food and the sequence
\* is one longer than when the frame began.
C5_Witness ==
    /\ FrameEnd
    /\ sent_growth > 0
    /\ sent_game_over = 0
    /\ Len(segments) = Len(pre_segments) + 1

\* C6: the food that food_spawner spawns is inside the grid and on no
\* position of a segment entity (head or body) alive when it runs.
C6_FoodOffSnake ==
    [][Ran("food_spawner") =>
         /\ Len(commands') = Len(commands) + 1
         /\ LET c == commands'[Len(commands')]
            IN  /\ c.op = "spawn" /\ c.tag = "food"
                /\ InGrid(c.pos)
                /\ \A e \in WithSnekSegment : positions[e] /= c.pos]_vars

\* The cells the draws of the model land on.
DrawCells == {Position(Gen(r[1], WIDTH), Gen(r[2], HEIGHT)) : r \in RandomDraws}

\* C6 witness: a food is about to be spawned in a frame in which a segment
\* lies on one of the cells the draws land on.
C6_Witness ==
    /\ "food_spawner" \notin pending
    /\ "snek_movement" \in pending
    /\ \E i \in 1..Len(commands) : commands[i].tag = "food"
    /\ \E e \in WithSnekSegment : positions[e] \in DrawCells

\* C7: at most one food entity is alive.
C7_AtMostOneFood == Cardinality(WithFood) <= 1

\* C8: the snake sequence has at least two entities, the head first and
\* only non-head segments after it, and over a frame its length stays,
\* grows by one, or is set back to 2 by a reset.
C8_LengthOriginal ==
    [][Ran("apply_buffers") =>
         /\ Len(segments') >= 2
         /\ tags'[segments'[1]] = "head"
         /\ \A i \in 2..Len(segments') : tags'[segments'[i]] = "segment"
         /\ \/ Len(segments') = Len(pre_segments)
            \/ Len(segments') = Len(pre_segments) + 1
            \/ resets > 0 /\ Len(segments') = 2]_vars

\* C10: an input pass whose candidate equals the current direction D sets
\* next-direction to D, and only the opposite of D is rejected.
C10_EqualOriginal ==
    [][(Ran("snek_movement_input") /\ candidate' /= None) =>
         \A h \in WithSnekHead :
            IF candidate' = opposite(heads[h].direction)
            THEN heads' = heads
            ELSE heads'[h].next_direction = candidate']_vars

\* C10 (amended): an input pass stores its candidate as next-direction
\* exactly when the candidate is neither the current direction D nor its
\* opposite; a candidate equal to D leaves next-direction as it was, so a
\* turn buffered earlier in the interval is kept.
C10_Equal ==
    [][(Ran("snek_movement_input") /\ candidate' /= None) =>
         \A h \in WithSnekHead :
            IF candidate' \in {heads[h].direction, opposite(heads[h].direction)}
            THEN heads' = heads
            ELSE heads' = [heads EXCEPT ![h].next_direction = candidate']]_vars

\* C10 witness: an input pass has resolved the current direction while a
\* different direction is buffered.
C10_Witness ==
    /\ "snek_movement_input" \notin pending
    /\ \E h \in WithSnekHead :
          /\ candidate = heads[h].direction
          /\ heads[h].next_direction /= heads[h].direction

\* The direction a key stands for, and the rank of a direction in the
\* priority Left > Right > Up > Down.
KeyDirection(k) ==
    CASE k = "A" -> "Left" [] k = "D" -> "Right" [] k = "W" -> "Up" [] k = "S" -> "Down"
Rank(d) ==
    CASE d = "Left" -> 1 [] d = "Right" -> 2 [] d = "Up" -> 3 [] d = "Down" -> 4
Highest(keys) ==
    CHOOSE d \in {KeyDirection(k) : k \in keys} :
        \A k \in keys : Rank(d) <= Rank(KeyDirection(k))

\* C11: with any set of keys pressed the candidate of an input pass is the
\* direction of the highest-priority pressed key (Left > Right > Up >
\* Down), and next-direction either becomes that candidate or stays as it
\* was: a lower-priority key is never taken, not even when the candidate is
\* rejected as a reversal or as the current direction.
C11_Priority ==
    [][(Ran("snek_movement_input") /\ keyboard_input' /= {}) =>
         \A h \in WithSnekHead :
            LET want == Highest(keyboard_input')
            IN  /\ candidate' = want
                /\ heads'[h].next_direction \in {heads[h].next_direction, want}
                /\ want \in {heads[h].direction, opposite(heads[h].direction)}
                      => heads' = heads]_vars

\* C11 witness: the snake heads Right, Left and Up are both pressed, the
\* pass has resolved Left and next-direction is not Up.
C11_Witness ==
    /\ "snek_movement_input" \notin pending
    /\ keyboard_input = {"A", "W"}
    /\ candidate = "Left"
    /\ \E h \in WithSnekHead :
          /\ heads[h].direction = "Right"
          /\ heads[h].next_direction = "Right"

\* The entities commands cs despawn.
Despawned(cs) == {cs[i].ent : i \in {j \in 1..Len(cs) : cs[j].op = "despawn"}}

\* C12: the eating step queues the destruction of exactly the foods on the
\* cell of the head that has just moved and raises one Growth signal for
\* each of them, changing no position and no sequence; when the buffers
\* are applied the foods it (or a reset) queued are gone and every other
\* food is still alive.
C12_Eating ==
    [][/\ Ran("snek_eating") =>
            LET there == positions[pre_segments[1]]
                here == {f \in WithFood : positions[f] = there}
                added == SubSeq(commands', Len(commands) + 1, Len(commands'))
            IN  /\ SubSeq(commands', 1, Len(commands)) = commands
                /\ Len(added) = Cardinality(here)
                /\ Despawned(added) = here
                /\ \A i \in 1..Len(added) : added[i].op = "despawn"
                /\ growth_events' = growth_events + Cardinality(here)
                /\ UNCHANGED <<positions, tags, heads, segments>>
       /\ Ran("apply_buffers") =>
            /\ \A f \in WithFood : f \in WithFood' <=> f \notin Despawned(commands)
            /\ (sent_growth = 0 /\ resets = 0) => WithFood \subseteq WithFood']_vars

\* C12 witness: the eating step has taken the food under the head and left
\* a food on another cell alone.
C12_Witness ==
    /\ "snek_eating" \notin pending
    /\ "snek_growth" \in pending
    /\ sent_growth >= 1
    /\ \E f \in WithFood :
          /\ f \notin Despawned(commands)
          /\ positions[f] /= positions[pre_segments[1]]

\* C13: a growth pass reads away every pending Growth signal and appends
\* one segment if there was at least one, however many there were; no
\* signal is left at the end of a frame, and a frame in which no signal was
\* raised appends nothing.
C13_GrowthCollapses ==
    [][/\ Ran("snek_growth") =>
            /\ growth_events' = 0
            /\ IF growth_events > 0
               THEN Len(segments') = Len(segments) + 1
               ELSE segments' = segments
       /\ Ran("apply_buffers") =>
            /\ growth_events' = 0
            /\ (sent_growth = 0 /\ resets = 0) => segments' = pre_segments
            /\ (sent_growth > 0 /\ resets = 0) =>
                  Len(segments') = Len(pre_segments) + 1]_vars

\* C13 witness: two Growth signals were raised in one tick (two foods lay on
\* the cell the head moved onto) and the sequence is one segment longer.
C13_Witness ==
    /\ FrameEnd
    /\ sent_growth >= 2
    /\ resets = 0
    /\ Len(segments) = Len(pre_segments) + 1

\* C14: the eating step runs after the movement step and the growth step
\* after the eating step; a game-over pass that resets runs after both, so
\* that the growth step never appends to the re-initialised sequence, and
\* after a reset the only live segments are those of the new sequence.
C14_ResetLast ==
    [][/\ Ran("snek_eating") => "snek_movement" \notin pending
       /\ Ran("snek_growth") => "snek_eating" \notin pending
       /\ (Ran("game_over") /\ game_over_events > 0) =>
             pending \cap {"snek_eating", "snek_growth"} = {}
       /\ (Ran("snek_growth") /\ resets > 0) => segments' = segments
       /\ (Ran("apply_buffers") /\ resets > 0) =>
             WithSnekSegment' = SeqSet(segments')]_vars

\* C14, its first consequence alone: the growth step never appends to a
\* sequence the reset of the same tick has already re-initialised.
C14_NoAppendAfterReset ==
    [][(Ran("snek_growth") /\ resets > 0) => segments' = segments]_vars

\* C14, its second consequence alone: no segment outside the new sequence
\* is alive once the buffers of a reset tick are applied.
C14_NothingSurvives ==
    [][(Ran("apply_buffers") /\ resets > 0) =>
          WithSnekSegment' = SeqSet(segments')]_vars

\* Every entity of the snake sequence is alive and has a position.
SequenceLive == \A i \in 1..Len(segments) : segments[i] \in DOMAIN positions

\* C15: whenever the movement step or the growth step is about to run,
\* every entity of the snake sequence is alive and has a position, the
\* recorded tail position is set whenever the growth step has a signal to
\* act on, and no unwrap has failed.
C15_Unwraps ==
    /\ ~panicked
    /\ CanRun("snek_movement") => SequenceLive
    /\ CanRun("snek_growth") => SequenceLive
    /\ (CanRun("snek_growth") /\ growth_events > 0) => last_tail_position /= NoPosition

\* C15, the part the unwraps rest on: the sequence is alive whenever the
\* movement step is about to look its positions up, the recorded tail
\* position is set whenever the growth step unwraps it, and no unwrap has
\* failed.
C15_UnwrapsReached ==
    /\ ~panicked
    /\ CanRun("snek_movement") => SequenceLive
    /\ (CanRun("snek_growth") /\ growth_events > 0) => last_tail_position /= NoPosition

\* C18: between frames every segment of the snake sequence is inside the
\* grid and no two of them are on the same cell.
C18_InGridDistinct ==
    pending = {} =>
        /\ SequenceLive
        /\ \A i \in 1..Len(segments) : InGrid(positions[segments[i]])
        /\ \A i, j \in 1..Len(segments) :
              i /= j => positions[segments[i]] /= positions[segments[j]]

\* Manhattan distance of two cells.
Abs(n) == IF n < 0 THEN -n ELSE n
Distance(p, q) == Abs(p.x - q.x) + Abs(p.y - q.y)

\* C19: between frames consecutive segments of the snake sequence are on
\* cells at Manhattan distance 1.
C19_Contiguous ==
    pending = {} =>
        /\ SequenceLive
        /\ \A i \in 1..(Len(segments) - 1) :
              Distance(positions[segments[i]], positions[segments[i + 1]]) = 1

\* C20: between frames no food is on a cell of a segment of the snake
\* sequence.
C20_FoodOffSnake ==
    pending = {} =>
        \A f \in WithFood : \A i \in 1..Len(segments) :
            segments[i] \in DOMAIN positions => positions[f] /= positions[segments[i]]

\* C20, in particular: no tick both eats and raises GameOver.
C20_NoEatAndGameOver == ~(sent_growth > 0 /\ sent_game_over > 0)

\* C17: an input pass with no key pressed changes neither the current
\* direction nor the buffered next-direction, and the movement step commits
\* whatever next-direction holds, so a turn buffered while a key was down is
\* committed although the key has been released since.
C17_NoKey ==
    [][/\ (Ran("snek_movement_input") /\ keyboard_input' = {}) => heads' = heads
       /\ Ran("snek_movement") =>
             \A h \in WithSnekHead : heads'[h].direction = heads[h].next_direction]_vars

\* C17 witness: a pass with no key pressed has run while a turn is buffered.
C17_Witness ==
    /\ "snek_movement_input" \notin pending
    /\ candidate /= None
    /\ keyboard_input = {}
    /\ \E h \in WithSnekHead : heads[h].next_direction /= heads[h].direction

\* food_spawner is in its loop; the cells no segment occupies.
InLoop == "food_spawner" \in pending /\ food_pos /= NoPosition
Free(p) == \A e \in WithSnekSegment : positions[e] /= p

\* C16: every cell of the grid can be drawn; once food_spawner can run
\* while some cell its draws land on is free of segments, it comes to
\* queue a food; the loop is left only with a draw on a free cell, so that
\* with every such cell occupied it is never left.
C16_Terminates ==
    /\ [](\A x \in 0..(WIDTH - 1) : \E r \in 0..(RandomSteps - 1) : Gen(r, WIDTH) = x)
    /\ [](\A y \in 0..(HEIGHT - 1) : \E r \in 0..(RandomSteps - 1) : Gen(r, HEIGHT) = y)
    /\ (CanRun("food_spawner") /\ \E p \in DrawCells : Free(p))
          ~> ("food_spawner" \notin pending
                /\ \E i \in 1..Len(commands) : commands[i].tag = "food")
    /\ [][InLoop => (IF Free(Unwrap(food_pos))
                      THEN Ran("food_spawner")
                      ELSE InLoop')]_vars
    /\ [][(InLoop /\ \A p \in DrawCells : ~Free(p)) => InLoop']_vars

\* C16 witness: the loop has rejected a draw and has then been left with a
\* food queued.
C16_Witness ==
    /\ "food_spawner" \notin pending
    /\ redrawn
    /\ \E i \in 1..Len(commands) : commands[i].tag = "food"

\* The loop holds a draw while every cell the draws land on is occupied.
C16_AllOccupied ==
    /\ InLoop
    /\ \A p \in DrawCells : ~Free(p)

====
